---------------------------- MODULE Spec2Model ----------------------------
(***************************************************************************)
(* A model of image-compressor-rs: the Format Resolver, the Single-File    *)
(* Pipeline (compress_image_file), the Batch Orchestrator                  *)
(* (compress_directory) and the Tool Bridge request loop (plugin.rs main). *)
(*                                                                         *)
(* Strings whose characters matter (extensions, format tokens) are         *)
(* sequences of one-character strings.  The codecs and the filesystem      *)
(* primitives are collaborators: what they return is drawn from small sets.*)
(***************************************************************************)
EXTENDS Integers, Sequences, FiniteSets, TLC

\* ------------------------------------------------------------------ bounds

\* Longest run of blanks/dots put before and after a token of ExtInputs.
MaxPad == 2

\* ------------------------------------------------------------ characters

\* The white space str::trim removes (two representatives of White_Space).
WhiteSpace == {" ", "\t"}

\* u8::to_ascii_lowercase on one character: A-Z to a-z, all else unchanged.
ToAsciiLowerChar(c) ==
    CASE c = "A" -> "a" [] c = "B" -> "b" [] c = "C" -> "c" [] c = "D" -> "d"
      [] c = "E" -> "e" [] c = "F" -> "f" [] c = "G" -> "g" [] c = "H" -> "h"
      [] c = "I" -> "i" [] c = "J" -> "j" [] c = "K" -> "k" [] c = "L" -> "l"
      [] c = "M" -> "m" [] c = "N" -> "n" [] c = "O" -> "o" [] c = "P" -> "p"
      [] c = "Q" -> "q" [] c = "R" -> "r" [] c = "S" -> "s" [] c = "T" -> "t"
      [] c = "U" -> "u" [] c = "V" -> "v" [] c = "W" -> "w" [] c = "X" -> "x"
      [] c = "Y" -> "y" [] c = "Z" -> "z" [] OTHER -> c

\* str::to_ascii_lowercase.
ToAsciiLowercase(s) == [i \in 1..Len(s) |-> ToAsciiLowerChar(s[i])]

\* The suffix of s from position i on (1-based); empty when i > Len(s).
DropTo(s, i) == SubSeq(s, i, Len(s))

\* Number of leading characters of s that lie in set cs.
RECURSIVE LeadingCount(_, _)
LeadingCount(s, cs) ==
    IF s = <<>> \/ Head(s) \notin cs THEN 0 ELSE 1 + LeadingCount(Tail(s), cs)

\* Number of trailing characters of s that lie in set cs.
RECURSIVE TrailingCount(_, _)
TrailingCount(s, cs) ==
    IF s = <<>> \/ s[Len(s)] \notin cs THEN 0
    ELSE 1 + TrailingCount(SubSeq(s, 1, Len(s) - 1), cs)

\* str::trim: white space removed at both ends.
Trim(s) ==
    LET front == DropTo(s, LeadingCount(s, WhiteSpace) + 1)
    IN  SubSeq(front, 1, Len(front) - TrailingCount(front, WhiteSpace))

\* str::trim_start_matches('.') with one prefix only: the plausible slip
\* (strip_prefix) that removes a single leading dot.
TrimStartOneDot(s) == IF s # <<>> /\ Head(s) = "." THEN Tail(s) ELSE s

\* str::trim_start_matches('.'): every leading dot is removed.
TrimStartMatchesDot(s) == DropTo(s, LeadingCount(s, {"."}) + 1)

\* ------------------------------------------------------- Format Resolver

Ok(v) == [ok |-> TRUE, val |-> v]
Err(kind, detail) == [ok |-> FALSE, kind |-> kind, detail |-> detail]

\* normalize_extension: trim, drop the leading dots, reject the empty rest,
\* lower-case.
normalize_extension(extension) ==
    LET e == TrimStartMatchesDot(Trim(extension))
    IN  IF e = <<>> THEN Err("EmptyExtension", <<>>)
        ELSE Ok(ToAsciiLowercase(e))

\* OutputFormat::from_extension.
from_extension(extension) ==
    LET n == normalize_extension(extension)
    IN  IF ~n.ok THEN n
        ELSE CASE n.val \in {<<"j","p","g">>, <<"j","p","e","g">>} -> Ok("Jpeg")
               [] n.val = <<"p","n","g">> -> Ok("Png")
               [] n.val = <<"w","e","b","p">> -> Ok("WebP")
               [] n.val = <<"a","v","i","f">> -> Ok("Avif")
               [] OTHER -> Err("UnsupportedFormat", n.val)


\* ------------------------------------------------------------ filesystem

None == [some |-> FALSE]
Some(v) == [some |-> TRUE, val |-> v]

\* A u32 as two 16-bit halves, hi * 2^16 + lo (TLC's integers stop at 2^31).
U32(hi, lo) == [hi |-> hi, lo |-> lo]

\* u32::MAX, which the Tool Bridge passes for an absent resize bound.
U32Max == U32(65535, 65535)

\* Largest byte count of a file of the model.
MaxBytes == 2

\* A directory is a root with an optional sub-directory; a file path is a
\* directory, a file stem and an optional extension (std::path::Path).
MkDir(root, sub) == [root |-> root, sub |-> sub]
MkPath(root, sub, stem, ext) == [root |-> root, sub |-> sub, stem |-> stem, ext |-> ext]

\* Path::parent of a file path.
Parent(p) == MkDir(p.root, p.sub)

\* The directories fs::create_dir_all(d) leaves in existence: d and its ancestors.
Ancestors(d) == {MkDir(d.root, ""), d}

\* The part of s after its last dot (all of s when it holds none).
RECURSIVE AfterLastDot(_)
AfterLastDot(s) ==
    IF \E i \in 1..Len(s) : s[i] = "."
    THEN AfterLastDot(DropTo(s, (CHOOSE i \in 1..Len(s) : s[i] = ".") + 1))
    ELSE s

\* Path::extension: what follows the last dot of the file name, if any.
PathExtension(p) == IF p.ext.some THEN Some(AfterLastDot(p.ext.val)) ELSE None

\* Path::is_file / Path::exists on a file path of the world w.
IsFile(w, p) == p \in DOMAIN w.files
Exists(w, p) == p \in DOMAIN w.files

\* Path::is_dir.
IsDir(w, d) == d \in w.dirs

\* One more call of a collaborator or filesystem primitive, in call order.
Log(w, e) == [w EXCEPT !.log = Append(@, e)]

\* fs::write(path, bytes): the file holds exactly the new bytes afterwards.
WriteFile(w, p, bytes) ==
    [w EXCEPT !.files = [q \in DOMAIN w.files \cup {p} |->
                            IF q = p THEN bytes ELSE w.files[q]]]

\* ---------------------------------------------------- Single-File Pipeline

\* CompressOptions::default().
DefaultOptions ==
    [overwrite |-> FALSE, quality |-> None, lossless |-> FALSE,
     progressive |-> FALSE, strip_metadata |-> TRUE, resize |-> None,
     png_level |-> None, avif_speed |-> None]

\* What the collaborators of one pipeline run answer: which fallible step
\* (if any) fails in this run, and how many bytes the encoder produces.
\* fs::write fails either before it touched the file ("write") or after it
\* created or truncated it ("write_partial").
Faults == {"none", "mkdir", "read", "encode", "write", "write_partial"}
Oracles == [fault : Faults, outSize : 0..MaxBytes]

\* A variant of the precondition check that creates the parent directory
\* before it looks at the input and the output.
validate_mkdir_first(w, input, output, options, o) ==
    LET w1 == [Log(w, "create_dir_all") EXCEPT !.dirs = @ \cup Ancestors(Parent(output))]
    IN  IF ~IsFile(w, input)
        THEN [res |-> Err("InputNotFound", input), w |-> w1]
        ELSE IF Exists(w, output) /\ ~options.overwrite
        THEN [res |-> Err("OutputExists", output), w |-> w1]
        ELSE [res |-> Ok(TRUE), w |-> w1]

\* validate_input_and_output: input is a file, output absent unless overwrite,
\* then the output's parent directory is created.
validate_input_and_output(w, input, output, options, o) ==
    IF ~IsFile(w, input)
    THEN [res |-> Err("InputNotFound", input), w |-> w]
    ELSE IF Exists(w, output) /\ ~options.overwrite
    THEN [res |-> Err("OutputExists", output), w |-> w]
    ELSE IF o.fault = "mkdir"
    THEN [res |-> Err("Io", Parent(output)), w |-> Log(w, "create_dir_all")]
    ELSE [res |-> Ok(TRUE),
          w |-> [Log(w, "create_dir_all") EXCEPT
                    !.dirs = @ \cup Ancestors(Parent(output))]]

\* image::guess_format(bytes) == Png, with unwrap_or(false).
IsPngBytes(bytes) == bytes.sniff = "png"

\* resize_image: Fit or Exact onto width x height.
resize_image(w, image, resize) ==
    [res |-> Ok([image EXCEPT !.resized = Some(resize)]),
     w |-> Log(w, IF resize.mode = "Fit" THEN "resize" ELSE "resize_exact")]

\* decode_and_resize: decode (by sniffed format, else by auto-detection),
\* then resize when options.resize is set.
decode_and_resize(w, bytes, options) ==
    LET w1 == Log(w, IF bytes.sniff # "none" THEN "load_from_memory_with_format"
                     ELSE "load_from_memory")
    IN  IF ~bytes.decodable
        THEN [res |-> Err("Decode", bytes.sniff), w |-> w1]
        ELSE LET image == [source |-> bytes.sniff, resized |-> None]
             IN  IF options.resize.some
                 THEN resize_image(w1, image, options.resize.val)
                 ELSE [res |-> Ok(image), w |-> w1]

\* The bytes an encoder returns: a valid image of the target format.
Encoded(format, o, input) ==
    [sniff |-> format, decodable |-> TRUE, size |-> o.outSize, origin |-> Some(input)]

\* compress_jpeg (mozjpeg).
compress_jpeg(w, image, options, o, input) ==
    IF o.fault = "encode"
    THEN [res |-> Err("Encode", "jpeg"), w |-> Log(w, "mozjpeg")]
    ELSE [res |-> Ok(Encoded("jpeg", o, input)), w |-> Log(w, "mozjpeg")]

\* compress_png: with an image, re-encode it to PNG first; without, take the
\* input bytes as they are; then optimize with oxipng.
compress_png(w, input_bytes, image, options, o, input) ==
    LET w1 == IF image.some THEN Log(w, "image_write_to_png") ELSE w
        valid == IF image.some THEN TRUE ELSE input_bytes.decodable
        w2 == Log(w1, "oxipng")
    IN  IF o.fault = "encode" \/ ~valid
        THEN [res |-> Err("Encode", "png"), w |-> w2]
        ELSE [res |-> Ok(Encoded("png", o, input)), w |-> w2]

\* compress_webp (libwebp): has no error return.
compress_webp(w, image, options, o, input) ==
    [res |-> Ok(Encoded("webp", o, input)), w |-> Log(w, "webp")]

\* compress_avif (ravif).
compress_avif(w, image, options, o, input) ==
    IF o.fault = "encode"
    THEN [res |-> Err("Encode", "avif"), w |-> Log(w, "ravif")]
    ELSE [res |-> Ok(Encoded("avif", o, input)), w |-> Log(w, "ravif")]

\* A dispatch that decodes every input, PNG sources included.
encode_always_decode(w, format, input_bytes, options, o, input) ==
    LET d == decode_and_resize(w, input_bytes, options)
    IN  IF ~d.res.ok THEN d
        ELSE CASE format = "Jpeg" -> compress_jpeg(d.w, d.res.val, options, o, input)
               [] format = "Png" ->
                    compress_png(d.w, input_bytes, Some(d.res.val), options, o, input)
               [] format = "WebP" -> compress_webp(d.w, d.res.val, options, o, input)
               [] format = "Avif" -> compress_avif(d.w, d.res.val, options, o, input)

\* The dispatch of compress_image_file (lib.rs 124-143): which of decode and
\* the encoders run for a resolved format.
encode_dispatch(w, format, input_bytes, options, o, input) ==
    IF format = "Png" /\ ~options.resize.some
    THEN LET w1 == Log(w, "guess_format")
         IN  IF IsPngBytes(input_bytes)
             THEN compress_png(w1, input_bytes, None, options, o, input)
             ELSE LET d == decode_and_resize(w1, input_bytes, options)
                  IN  IF ~d.res.ok THEN d
                      ELSE compress_png(d.w, input_bytes, Some(d.res.val), options, o, input)
    ELSE LET d == decode_and_resize(w, input_bytes, options)
         IN  IF ~d.res.ok THEN d
             ELSE CASE format = "Jpeg" -> compress_jpeg(d.w, d.res.val, options, o, input)
                    [] format = "Png" ->
                         compress_png(d.w, input_bytes, Some(d.res.val), options, o, input)
                    [] format = "WebP" -> compress_webp(d.w, d.res.val, options, o, input)
                    [] format = "Avif" -> compress_avif(d.w, d.res.val, options, o, input)

\* What a file holds after a write that failed part-way.
Truncated(input) ==
    [sniff |-> "none", decodable |-> FALSE, size |-> 0, origin |-> Some(input)]

\* The f64 a ratio of byte counts yields, held as the exact fraction num/den
\* with den > 0 (the byte counts of the model are far below 2^53, where the
\* conversions, the division, the subtraction from 1.0 and the product with
\* 100.0 keep the sign and the comparisons with 0 and 100 of the exact value).
Fraction(num, den) == [num |-> num, den |-> den]

\* A savings computation that takes the ratio of original to compressed.
savings_percent_inverted(original_bytes, compressed_bytes) ==
    IF original_bytes > 0 /\ compressed_bytes > 0
    THEN Fraction(100 * (compressed_bytes - original_bytes), compressed_bytes)
    ELSE Fraction(0, 1)

\* savings_percent of compress_image_file (lib.rs 149-153):
\* (1.0 - compressed / original) * 100.0 when original > 0, else 0.0.
savings_percent(original_bytes, compressed_bytes) ==
    IF original_bytes > 0
    THEN Fraction(100 * (original_bytes - compressed_bytes), original_bytes)
    ELSE Fraction(0, 1)

\* The CompressionStats compress_image_file returns.
CompressionStats(original_bytes, compressed_bytes) ==
    [original_bytes |-> original_bytes, compressed_bytes |-> compressed_bytes,
     savings_percent |-> savings_percent(original_bytes, compressed_bytes)]

\* A variant that creates the output file as soon as the format is resolved and
\* fills it after encoding (an output stream opened before the encoder ran).
resolve_write_early(w, input, output, options, o, input_bytes) ==
    LET ext == PathExtension(output)
        format == IF ext.some THEN from_extension(ext.val)
                  ELSE Err("MissingExtension", output)
    IN  IF ~format.ok THEN [res |-> format, w |-> w]
        ELSE LET w1 == WriteFile(Log(w, "write"), output, Truncated(input))
                 c == encode_dispatch(w1, format.val, input_bytes, options, o, input)
             IN  IF ~c.res.ok THEN c
                 ELSE [res |-> Ok(CompressionStats(input_bytes.size, c.res.val.size)),
                       w |-> WriteFile(c.w, output, c.res.val)]

\* The steps of compress_image_file after the input was read: resolve the
\* format from the output's extension, encode, write, compute the stats.
resolve_encode_write(w, input, output, options, o, input_bytes) ==
    LET ext == PathExtension(output)
        format == IF ext.some THEN from_extension(ext.val)
                  ELSE Err("MissingExtension", output)
    IN  IF ~format.ok THEN [res |-> format, w |-> w]
        ELSE LET c == encode_dispatch(w, format.val, input_bytes, options, o, input)
             IN  IF ~c.res.ok THEN c
                 ELSE IF o.fault = "write"
                 THEN [res |-> Err("Io", output), w |-> Log(c.w, "write")]
                 ELSE IF o.fault = "write_partial"
                 THEN [res |-> Err("Io", output),
                       w |-> WriteFile(Log(c.w, "write"), output, Truncated(input))]
                 ELSE [res |-> Ok(CompressionStats(input_bytes.size, c.res.val.size)),
                       w |-> WriteFile(Log(c.w, "write"), output, c.res.val)]

\* compress_image_file.
compress_image_file(w, input, output, options, o) ==
    LET v == validate_input_and_output(w, input, output, options, o)
    IN  IF ~v.res.ok THEN v
        ELSE IF o.fault = "read"
        THEN [res |-> Err("Io", input), w |-> Log(v.w, "read")]
        ELSE resolve_encode_write(Log(v.w, "read"), input, output, options, o,
                                  v.w.files[input])

\* ------------------------------------------------------------------ state

VARIABLES
    resolver,   \* Format Resolver run: [input, res]
    world,      \* [files, dirs, log]: the filesystem and the calls made so far
    file,       \* compress_image_file run: [call, res, before]
    batch,      \* compress_directory run
    bridge,     \* Tool Bridge run
    calc        \* a call of ResizeOptions::new or of the savings computation

vars == <<resolver, world, file, batch, bridge, calc>>

Idle == [pc |-> "idle"]
EmptyWorld == [files |-> <<>>, dirs |-> {}, log |-> <<>>]

\* ----------------------------------------- specification: Format Resolver

\* Runs of blanks and dots of at most n characters.
RECURSIVE Pads(_)
Pads(n) ==
    IF n = 0 THEN {<<>>}
    ELSE Pads(n - 1) \cup {<<c>> \o p : c \in {" ", "\t", "."},
                                        p \in {q \in Pads(n - 1) : Len(q) = n - 1}}

\* Tokens in several casings, near misses and tokens with inner dots/blanks.
Tokens ==
    {<<>>, <<"j","p","g">>, <<"J","P","G">>, <<"j","p","e","g">>, <<"J","p","E","g">>,
     <<"p","n","g">>, <<"P","N","G">>, <<"P","n","g">>, <<"w","e","b","p">>,
     <<"W","e","b","P">>, <<"a","v","i","f">>, <<"A","V","I","F">>,
     <<"b","m","p">>, <<"g","i","f">>, <<"t","i","f","f">>, <<"j","p","e">>,
     <<"p","n","g","x">>, <<"p",".","n","g">>, <<"p"," ","n","g">>, <<"x",".","p","n","g">>}

\* The extension strings the resolver is run on.
ExtInputs == {a \o t \o b : a \in Pads(MaxPad), t \in Tokens, b \in Pads(MaxPad)}

InitResolver ==
    /\ resolver \in [pc : {"call"}, input : ExtInputs, res : {None}]
    /\ world = EmptyWorld
    /\ file = Idle
    /\ batch = Idle
    /\ bridge = Idle
    /\ calc = Idle

\* One call of OutputFormat::from_extension.
Resolve ==
    /\ resolver.pc = "call"
    /\ resolver' = [resolver EXCEPT !.pc = "done",
                                    !.res = Some(from_extension(resolver.input))]
    /\ UNCHANGED <<world, file, batch, bridge, calc>>

NextResolver == Resolve

SpecResolver == InitResolver /\ [][NextResolver]_vars

\* ------------------------------------ specification: Single-File Pipeline

\* The contents a source file can have: what its magic bytes sniff as,
\* whether the decoder accepts it, and its length.  Bytes that sniff as
\* nothing are never decodable, and an empty file sniffs as nothing.
SourceContents ==
    {c \in [sniff : {"png", "jpeg", "none"}, decodable : BOOLEAN,
            size : 0..MaxBytes, origin : {None}] :
        /\ c.sniff = "none" => ~c.decodable
        /\ c.size = 0 => c.sniff = "none"}

\* What a file left from an earlier run holds.
OldContent == [sniff |-> "jpeg", decodable |-> TRUE, size |-> 1, origin |-> None]

InputPath == MkPath("in", "", "a", Some(<<"p","n","g">>))

\* The extensions of the output paths: none, empty ("out."), and tokens.
FileExts ==
    {None, Some(<<>>), Some(<<"p","n","g">>), Some(<<"P","N","G">>),
     Some(<<"j","p","g">>), Some(<<"j","p","e","g">>), Some(<<"w","e","b","p">>),
     Some(<<"a","v","i","f">>), Some(<<"b","m","p">>)}

OutputPaths == {MkPath("out", sub, "a", e) : sub \in {"", "sub"}, e \in FileExts}

\* Output files that may exist before the call.
OldOutputs == {MkPath("out", "", "a", Some(<<"p","n","g">>)), MkPath("out", "", "a", None)}

ResizeChoices ==
    {None, Some([width |-> U32(0, 1), height |-> U32(0, 2), mode |-> "Fit"]),
     Some([width |-> U32(0, 2), height |-> U32(0, 1), mode |-> "Exact"])}

FileOptions ==
    {[DefaultOptions EXCEPT !.overwrite = ov, !.resize = rs] :
        ov \in BOOLEAN, rs \in ResizeChoices}

InitFile ==
    /\ \E present \in BOOLEAN, c \in SourceContents, old \in SUBSET OldOutputs,
          outdir \in BOOLEAN :
          world = [files |-> [p \in (IF present THEN {InputPath} ELSE {}) \cup old |->
                                 IF p = InputPath THEN c ELSE OldContent],
                   dirs |-> {MkDir("in", "")} \cup
                            (IF outdir \/ old # {} THEN {MkDir("out", "")} ELSE {}),
                   log |-> <<>>]
    /\ file = [pc |-> "call", call |-> None, res |-> None, before |-> None]
    /\ resolver = Idle
    /\ batch = Idle
    /\ bridge = Idle
    /\ calc = Idle

\* One call of compress_image_file from the CLI.
CompressFile ==
    /\ file.pc = "call"
    /\ \E output \in OutputPaths, options \in FileOptions, o \in Oracles :
          LET r == compress_image_file(world, InputPath, output, options, o)
          IN  /\ world' = r.w
              /\ file' = [pc |-> "done",
                          call |-> Some([input |-> InputPath, output |-> output,
                                         options |-> options, o |-> o]),
                          res |-> Some(r.res), before |-> Some(world)]
    /\ UNCHANGED <<resolver, batch, bridge, calc>>

NextFile == CompressFile

SpecFile == InitFile /\ [][NextFile]_vars

\* ------------------------------------------------------ Batch Orchestrator

\* Most source files of one batch.
MaxFiles == 2

\* BatchReport::default().
EmptyReport ==
    [compressed |-> 0, skipped |-> 0, failed |-> 0,
     total_original_bytes |-> 0, total_compressed_bytes |-> 0]

\* Path::strip_prefix(input_dir): the path below the directory, if it is below.
StripPrefix(path, dir) ==
    IF path.root = dir.root /\ dir.sub = ""
    THEN Some([sub |-> path.sub, stem |-> path.stem, ext |-> path.ext])
    ELSE None

\* output_dir.join(relative_path) followed by set_extension(to_extension).
TargetPath(output_dir, rel, to_extension) ==
    MkPath(output_dir.root, rel.sub, rel.stem, Some(to_extension))

\* collect_input_files: the regular files below input_dir (recursive), or in
\* input_dir itself (read_dir).
DiscoveredFiles(w, input_dir, recursive) ==
    {p \in DOMAIN w.files : p.root = input_dir.root /\ (recursive \/ p.sub = "")}

\* The orders a directory walk can yield the files of set S in.
WalkOrders(S) ==
    {f \in [1..Cardinality(S) -> S] : \A i, j \in 1..Cardinality(S) : f[i] = f[j] => i = j}

\* A loop body that forgets to count a file whose pipeline run failed.
process_file_drop_failed(w, report, source_path, args, to_extension, o) ==
    LET rel == StripPrefix(source_path, args.input_dir)
        target == TargetPath(args.output_dir, rel.val, to_extension)
        w1 == IF o.fault = "mkdir" THEN Log(w, "create_dir_all")
              ELSE [Log(w, "create_dir_all") EXCEPT !.dirs = @ \cup Ancestors(Parent(target))]
        r == compress_image_file(w1, source_path, target, args.options, o)
    IN  IF Exists(w1, target) /\ ~args.options.overwrite
        THEN [w |-> w1, report |-> [report EXCEPT !.skipped = @ + 1],
              entry |-> [source |-> source_path, target |-> Some(target),
                         outcome |-> "skipped", pipeline |-> None]]
        ELSE [w |-> r.w,
              report |-> IF r.res.ok THEN [report EXCEPT !.compressed = @ + 1] ELSE report,
              entry |-> [source |-> source_path, target |-> Some(target),
                         outcome |-> IF r.res.ok THEN "compressed" ELSE "failed",
                         pipeline |-> Some(r.res)]]

\* A loop body without the skip check: every file goes to the pipeline.
process_file_no_skip(w, report, source_path, args, to_extension, o) ==
    LET rel == StripPrefix(source_path, args.input_dir)
        target == TargetPath(args.output_dir, rel.val, to_extension)
        w1 == IF o.fault = "mkdir" THEN Log(w, "create_dir_all")
              ELSE [Log(w, "create_dir_all") EXCEPT !.dirs = @ \cup Ancestors(Parent(target))]
        r == compress_image_file(w1, source_path, target, args.options, o)
    IN  [w |-> r.w,
         report |-> IF r.res.ok
                    THEN [report EXCEPT !.compressed = @ + 1,
                             !.total_original_bytes = @ + r.res.val.original_bytes,
                             !.total_compressed_bytes = @ + r.res.val.compressed_bytes]
                    ELSE [report EXCEPT !.failed = @ + 1],
         entry |-> [source |-> source_path, target |-> Some(target),
                    outcome |-> IF r.res.ok THEN "compressed" ELSE "failed",
                    pipeline |-> Some(r.res)]]

\* A loop body that adds the bytes of a failed file's run to the totals: the
\* size of the source is counted as read and as written.
process_file_count_failed_bytes(w, report, source_path, args, to_extension, o) ==
    LET rel == StripPrefix(source_path, args.input_dir)
        target == TargetPath(args.output_dir, rel.val, to_extension)
        w1 == IF o.fault = "mkdir" THEN Log(w, "create_dir_all")
              ELSE [Log(w, "create_dir_all") EXCEPT !.dirs = @ \cup Ancestors(Parent(target))]
        r == compress_image_file(w1, source_path, target, args.options, o)
    IN  IF Exists(w1, target) /\ ~args.options.overwrite
        THEN [w |-> w1, report |-> [report EXCEPT !.skipped = @ + 1],
              entry |-> [source |-> source_path, target |-> Some(target),
                         outcome |-> "skipped", pipeline |-> None]]
        ELSE [w |-> r.w,
              report |-> IF r.res.ok
                         THEN [report EXCEPT !.compressed = @ + 1,
                                  !.total_original_bytes = @ + r.res.val.original_bytes,
                                  !.total_compressed_bytes = @ + r.res.val.compressed_bytes]
                         ELSE [report EXCEPT !.failed = @ + 1,
                                  !.total_original_bytes = @ + w.files[source_path].size,
                                  !.total_compressed_bytes = @ + w.files[source_path].size],
              entry |-> [source |-> source_path, target |-> Some(target),
                         outcome |-> IF r.res.ok THEN "compressed" ELSE "failed",
                         pipeline |-> Some(r.res)]]

\* The body of the loop of compress_directory for one source file (lib.rs
\* 184-230): map the path, create the target's directory, skip or compress,
\* count.  entry records what was done with the file.
process_file(w, report, source_path, args, to_extension, o) ==
    LET rel == StripPrefix(source_path, args.input_dir)
    IN  IF ~rel.some
        THEN [w |-> w, report |-> [report EXCEPT !.failed = @ + 1],
              entry |-> [source |-> source_path, target |-> None,
                         outcome |-> "failed", pipeline |-> None]]
        ELSE
        LET target == TargetPath(args.output_dir, rel.val, to_extension)
            \* fs::create_dir_all(parent).ok(): a failure is ignored
            w1 == IF o.fault = "mkdir" THEN Log(w, "create_dir_all")
                  ELSE [Log(w, "create_dir_all") EXCEPT
                           !.dirs = @ \cup Ancestors(Parent(target))]
        IN  IF Exists(w1, target) /\ ~args.options.overwrite
            THEN [w |-> w1, report |-> [report EXCEPT !.skipped = @ + 1],
                  entry |-> [source |-> source_path, target |-> Some(target),
                             outcome |-> "skipped", pipeline |-> None]]
            ELSE
            LET r == compress_image_file(w1, source_path, target, args.options, o)
            IN  IF r.res.ok
                THEN [w |-> r.w,
                      report |-> [report EXCEPT
                          !.compressed = @ + 1,
                          !.total_original_bytes = @ + r.res.val.original_bytes,
                          !.total_compressed_bytes = @ + r.res.val.compressed_bytes],
                      entry |-> [source |-> source_path, target |-> Some(target),
                                 outcome |-> "compressed", pipeline |-> Some(r.res)]]
                ELSE [w |-> r.w, report |-> [report EXCEPT !.failed = @ + 1],
                      entry |-> [source |-> source_path, target |-> Some(target),
                                 outcome |-> "failed", pipeline |-> Some(r.res)]]

\* The up-front check of the target extension in compress_directory (lib.rs
\* 180): normalize_extension only.
validate_target_extension(to_extension) == normalize_extension(to_extension)

\* compress_directory before its loop (lib.rs 169-182): the input directory
\* must exist, the output directory is created, the target extension is
\* checked.  Returns the normalized extension.
batch_preconditions(w, args, mkdirOk) ==
    LET n == validate_target_extension(args.to_extension)
        w1 == [Log(w, "create_dir_all") EXCEPT !.dirs = @ \cup Ancestors(args.output_dir)]
    IN  IF ~IsDir(w, args.input_dir)
        THEN [res |-> Err("InputDirNotFound", args.input_dir), w |-> w]
        ELSE IF ~mkdirOk
        THEN [res |-> Err("Io", args.output_dir), w |-> Log(w, "create_dir_all")]
        ELSE IF ~n.ok THEN [res |-> n, w |-> w1]
        ELSE [res |-> n, w |-> Log(w1, "collect_input_files")]

\* The loop of compress_directory over the files from position i on;
\* batch_loop_next goes on from what the loop body returned for file i.
RECURSIVE batch_loop(_, _, _, _, _, _, _)
batch_loop_next(r, files, i, args, to_extension, o) ==
    batch_loop(r.w, r.report, files, i + 1, args, to_extension, o)

batch_loop(w, report, files, i, args, to_extension, o) ==
    IF i > Len(files) THEN [res |-> Ok(report), w |-> w]
    ELSE batch_loop_next(process_file(w, report, files[i], args, to_extension, o),
                         files, i, args, to_extension, o)

\* The loop of compress_directory entered with what the preconditions returned.
batch_run(pre, args, order, o) ==
    IF ~pre.res.ok THEN pre
    ELSE batch_loop(pre.w, EmptyReport,
                    SelectSeq(order, LAMBDA p :
                        p \in DiscoveredFiles(pre.w, args.input_dir, args.recursive)),
                    1, args, pre.res.val, o)

\* compress_directory as one call: order is the order in which the walk
\* yields the files, o what the collaborators answer for each file.
compress_directory(w, args, mkdirOk, order, o) ==
    batch_run(batch_preconditions(w, args, mkdirOk), args, order, o)

\* -------------------------------------- specification: Batch Orchestrator

\* Source files a batch can find, and what each holds when it is sound.
SourceA == MkPath("in", "", "a", Some(<<"p","n","g">>))
SourceA2 == MkPath("in", "", "a", Some(<<"j","p","g">>))
SourceB == MkPath("in", "sub", "b", Some(<<"p","n","g">>))
SourceCandidates == {SourceA, SourceA2, SourceB}
SoundContent(p) ==
    [sniff |-> IF p = SourceA2 THEN "jpeg" ELSE "png", decodable |-> TRUE,
     size |-> MaxBytes, origin |-> None]
CorruptContent(p) == [SoundContent(p) EXCEPT !.decodable = FALSE]

\* Destination files that may exist before the batch.
OldTargets ==
    {MkPath("out", "", "a", Some(<<"w","e","b","p">>)),
     MkPath("out", "", "a", Some(<<"p","n","g">>))}

\* The --to arguments tried.
ToExtensions ==
    {<<"w","e","b","p">>, <<".","P","N","G">>, <<"b","m","p">>, <<".">>}

BatchArgs ==
    [input_dir : {MkDir("in", "")}, output_dir : {MkDir("out", ""), MkDir("in", "")},
     to_extension : ToExtensions,
     options : {[DefaultOptions EXCEPT !.overwrite = ov] : ov \in BOOLEAN},
     recursive : BOOLEAN]

InitBatch ==
    /\ \E srcs \in SUBSET SourceCandidates, corrupt \in SUBSET SourceCandidates,
          old \in SUBSET OldTargets, indir \in BOOLEAN :
          /\ Cardinality(srcs) <= MaxFiles
          /\ corrupt \subseteq srcs
          /\ indir \/ srcs = {}
          /\ world = [files |-> [p \in srcs \cup old |->
                                    IF p \in old THEN OldContent
                                    ELSE IF p \in corrupt THEN CorruptContent(p)
                                    ELSE SoundContent(p)],
                      dirs |-> (IF indir THEN {MkDir("in", "")} ELSE {})
                               \cup {Parent(p) : p \in srcs \cup old}
                               \cup {MkDir(p.root, "") : p \in srcs \cup old},
                      log |-> <<>>]
    /\ batch \in [pc : {"start"}, args : BatchArgs, to_extension : {<<>>},
                  files : {<<>>}, i : {1}, report : {EmptyReport}, res : {None},
                  before : {None}, entries : {<<>>}]
    /\ resolver = Idle
    /\ file = Idle
    /\ bridge = Idle
    /\ calc = Idle

\* The collaborators' answers tried for one file of a batch.
BatchOracles == [fault : Faults, outSize : {1, MaxBytes}]

BatchFinish(b) ==
    IF b.i > Len(b.files) THEN [b EXCEPT !.pc = "done", !.res = Some(Ok(b.report))] ELSE b

\* compress_directory up to its loop: the input directory must exist, the
\* output directory is created, the target extension is checked, the files
\* are collected.  With no file found the report is returned at once.
BatchStart ==
    /\ batch.pc = "start"
    /\ \E mkdirOk \in BOOLEAN :
          LET a == batch.args
              b0 == [batch EXCEPT !.before = Some(world)]
              pre == batch_preconditions(world, a, mkdirOk)
              found == DiscoveredFiles(pre.w, a.input_dir, a.recursive)
          IN  /\ world' = pre.w
              /\ IF ~pre.res.ok
                 THEN batch' = [b0 EXCEPT !.pc = "done", !.res = Some(pre.res)]
                 ELSE \E order \in WalkOrders(found) :
                         batch' = BatchFinish([b0 EXCEPT !.pc = "loop",
                                                  !.to_extension = pre.res.val,
                                                  !.files = order])
    /\ UNCHANGED <<resolver, file, bridge, calc>>

\* One turn of the loop of compress_directory; after the last file the report
\* is returned.
BatchFile ==
    /\ batch.pc = "loop"
    /\ batch.i <= Len(batch.files)
    /\ \E o \in BatchOracles :
          LET r == process_file(world, batch.report, batch.files[batch.i],
                                batch.args, batch.to_extension, o)
          IN  /\ world' = r.w
              /\ batch' = BatchFinish([batch EXCEPT !.report = r.report,
                                          !.i = @ + 1,
                                          !.entries = Append(@, r.entry)])
    /\ UNCHANGED <<resolver, file, bridge, calc>>

NextBatch == BatchStart \/ BatchFile

SpecBatch == InitBatch /\ [][NextBatch]_vars

\* ------------------------------------------------------------ Tool Bridge

\* Most input lines of one Tool Bridge run.
MaxLines == 2

\* JSON values that occur as ids.
JNull == [t |-> "null"]
JNum(n) == [t |-> "num", v |-> n]
JStr(x) == [t |-> "str", s |-> x]

\* A JSON integer argument: sign and magnitude hi * 2^16 + lo, which holds the
\* numbers beyond 32 bits that the casts of the handlers narrow.
JInt(neg, hi, lo) == [neg |-> neg, hi |-> hi, lo |-> lo]

\* Value::as_u64: a non-negative integer, else None.
AsU64(v) == IF v.some /\ ~v.val.neg THEN Some(U32(v.val.hi, v.val.lo)) ELSE None

\* v as u32 and v as u8: the low 32 and the low 8 bits.
AsU32(n) == U32(n.hi % 65536, n.lo)
AsU8(n) == n.lo % 256

\* A constructor that rejects the bounds only when both are zero.
ResizeOptions_new_both_zero(width, height, mode) ==
    IF width = U32(0, 0) /\ height = U32(0, 0) THEN Err("InvalidResize", "zero")
    ELSE Ok([width |-> width, height |-> height, mode |-> mode])

\* ResizeOptions::new.
ResizeOptions_new(width, height, mode) ==
    IF width = U32(0, 0) \/ height = U32(0, 0) THEN Err("InvalidResize", "zero")
    ELSE Ok([width |-> width, height |-> height, mode |-> mode])

\* Result::ok.
ResultOk(r) == IF r.ok THEN Some(r.val) ELSE None

\* ok(id, result) and err(id, code, message): the two response shapes.
ok(id, result) == [jsonrpc |-> "2.0", id |-> id, result |-> result]
err(id, code, message) ==
    [jsonrpc |-> "2.0", id |-> id, error |-> [code |-> code, message |-> message]]

\* json!({}): tool arguments with every key absent.
NoArgs ==
    [input_path |-> None, output_path |-> None, format |-> None, quality |-> None,
     max_width |-> None, max_height |-> None, lossless |-> None,
     input_dir |-> None, output_dir |-> None]

\* "jpeg" => "jpg", any other token as it is.
FormatExt(f) == IF f = <<"j","p","e","g">> THEN <<"j","p","g">> ELSE f

\* Path::with_extension.
WithExtension(p, ext) == [p EXCEPT !.ext = Some(ext)]

\* What one handler returns: the response, the world, the pipeline calls made.
Reply(response, w, calls) == [response |-> response, w |-> w, calls |-> calls]

\* The match on the result of compress_image_file in call_compress_image
\* (plugin.rs 236-251); r is what the pipeline returned.
image_reply(id, input_path, final_output, options, r) ==
    Reply(IF r.res.ok THEN ok(id, [content |-> "Compressed", stats |-> r.res.val])
          ELSE err(id, -32000, "Compression failed"),
          r.w,
          <<[fn |-> "compress_image_file", input |-> input_path,
             output |-> final_output, options |-> options, res |-> r.res]>>)

\* call_compress_image.
call_compress_image(w, id, args, env) ==
    IF ~args.input_path.some
    THEN Reply(err(id, -32602, "Missing required parameter: input_path"), w, <<>>)
    ELSE
    LET input_path == args.input_path.val
        format_ext == IF args.format.some THEN Some(FormatExt(args.format.val)) ELSE None
        output_path ==
            IF args.output_path.some THEN args.output_path.val
            ELSE WithExtension(input_path,
                               IF format_ext.some THEN format_ext.val
                               ELSE <<"w","e","b","p">>)
        final_output == IF format_ext.some THEN WithExtension(output_path, format_ext.val)
                        ELSE output_path
        mw == AsU64(args.max_width)
        mh == AsU64(args.max_height)
        max_width == IF mw.some THEN Some(AsU32(mw.val)) ELSE None
        max_height == IF mh.some THEN Some(AsU32(mh.val)) ELSE None
        resize ==
            IF max_width.some /\ max_height.some
            THEN ResultOk(ResizeOptions_new(max_width.val, max_height.val, "Fit"))
            ELSE IF max_width.some
            THEN ResultOk(ResizeOptions_new(max_width.val, U32Max, "Fit"))
            ELSE IF max_height.some
            THEN ResultOk(ResizeOptions_new(U32Max, max_height.val, "Fit"))
            ELSE None
        q == AsU64(args.quality)
        options ==
            [DefaultOptions EXCEPT
                !.overwrite = TRUE,
                !.quality = IF q.some THEN Some(AsU8(q.val)) ELSE None,
                !.lossless = IF args.lossless.some THEN args.lossless.val ELSE FALSE,
                !.resize = resize]
    IN  image_reply(id, input_path, final_output, options,
                    compress_image_file(w, input_path, final_output, options, env.o))

\* The match on the result of compress_directory in call_compress_directory
\* (plugin.rs 283-304); r is what the batch returned.
directory_reply(id, input_dir, output_dir, options, r) ==
    Reply(IF r.res.ok
          THEN ok(id, [content |-> "Batch compression complete", report |-> r.res.val])
          ELSE err(id, -32000, "Batch compression failed"),
          r.w,
          <<[fn |-> "compress_directory", input |-> input_dir,
             output |-> output_dir, options |-> options, res |-> r.res]>>)

\* call_compress_directory.
call_compress_directory(w, id, args, env) ==
    IF ~args.input_dir.some
    THEN Reply(err(id, -32602, "Missing required parameter: input_dir"), w, <<>>)
    ELSE
    LET input_dir == args.input_dir.val
        format_ext == FormatExt(IF args.format.some THEN args.format.val
                                ELSE <<"w","e","b","p">>)
        output_dir == IF args.output_dir.some THEN args.output_dir.val
                      ELSE MkDir(input_dir.root \o "_compressed", "")
        q == AsU64(args.quality)
        options == [DefaultOptions EXCEPT
                       !.overwrite = TRUE,
                       !.quality = IF q.some THEN Some(AsU8(q.val)) ELSE None]
        bargs == [input_dir |-> input_dir, output_dir |-> output_dir,
                  to_extension |-> format_ext, options |-> options, recursive |-> TRUE]
    IN  directory_reply(id, input_dir, output_dir, options,
                        compress_directory(w, bargs, env.mkdirOk, env.order, env.o))

\* A handle_tool_call that reports an unknown tool as invalid parameters.
handle_tool_call_invalid_params(w, id, params, env) ==
    LET tool_name == IF params.name.some THEN params.name.val ELSE ""
        args == IF params.arguments.some THEN params.arguments.val ELSE NoArgs
    IN  CASE tool_name = "compress_image" -> call_compress_image(w, id, args, env)
          [] tool_name = "compress_directory" -> call_compress_directory(w, id, args, env)
          [] OTHER -> Reply(err(id, -32602, "Unknown tool"), w, <<>>)

\* handle_tool_call: dispatch on params.name.
handle_tool_call(w, id, params, env) ==
    LET tool_name == IF params.name.some THEN params.name.val ELSE ""
        args == IF params.arguments.some THEN params.arguments.val ELSE NoArgs
    IN  CASE tool_name = "compress_image" -> call_compress_image(w, id, args, env)
          [] tool_name = "compress_directory" -> call_compress_directory(w, id, args, env)
          [] OTHER -> Reply(err(id, -32601, "Unknown tool"), w, <<>>)

\* json!({}) as params.
NoParams == [name |-> None, arguments |-> None]

\* The match on method of main (plugin.rs 59-73).
dispatch_method(w, id, method, params, env) ==
    CASE method = "initialize" -> Reply(ok(id, [content |-> "serverInfo"]), w, <<>>)
      [] method \in {"ping", "shutdown"} -> Reply(ok(id, [content |-> "{}"]), w, <<>>)
      [] method = "health/check" -> Reply(ok(id, [content |-> "ok:true"]), w, <<>>)
      [] method = "tools/list" -> Reply(ok(id, [content |-> "tools"]), w, <<>>)
      [] method = "tools/call" -> handle_tool_call(w, id, params, env)
      [] OTHER -> Reply(err(id, -32601, "Method not found"), w, <<>>)

\* What the loop does next after a line.
Step(next, out, errlog, w, calls) ==
    [next |-> next, out |-> out, errlog |-> errlog, w |-> w, calls |-> calls]

\* The lines main writes to stderr while it answers a request (log calls).
RequestLog(method, calls) ==
    (IF method = "initialize" THEN <<"info">> ELSE <<>>) \o [k \in 1..Len(calls) |-> "info"]

\* The end of a loop turn (plugin.rs 75-80): the response r of the handler is
\* written to stdout, and shutdown exits the process.
respond(method, r) ==
    Step(IF method = "shutdown" THEN "exit" ELSE "continue",
         <<r.response>>, RequestLog(method, r.calls), r.w, r.calls)

\* A loop body that answers requests whose id is null as well.
handle_line_answer_null(w, line, env) ==
    IF line.kind = "read_error" THEN Step("break", <<>>, <<"error">>, w, <<>>)
    ELSE IF line.kind = "blank" THEN Step("continue", <<>>, <<>>, w, <<>>)
    ELSE IF line.kind = "garbage" THEN Step("continue", <<>>, <<"error">>, w, <<>>)
    ELSE IF ~line.req.id.some THEN Step("continue", <<>>, <<>>, w, <<>>)
    ELSE LET req == line.req
             method == IF req.method.some THEN req.method.val ELSE ""
             params == IF req.params.some THEN req.params.val ELSE NoParams
         IN  respond(method, dispatch_method(w, req.id.val, method, params, env))

\* The body of the loop of main for one line of stdin (plugin.rs 22-81): a
\* read error ends the loop; blank lines, unparseable lines and requests
\* without id (or with a null id) are passed over; any other request is
\* answered, and shutdown then exits the process.
handle_line(w, line, env) ==
    IF line.kind = "read_error" THEN Step("break", <<>>, <<"error">>, w, <<>>)
    ELSE IF line.kind = "blank" THEN Step("continue", <<>>, <<>>, w, <<>>)
    ELSE IF line.kind = "garbage" THEN Step("continue", <<>>, <<"error">>, w, <<>>)
    ELSE IF ~line.req.id.some \/ line.req.id.val = JNull
    THEN Step("continue", <<>>, <<>>, w, <<>>)
    ELSE LET req == line.req
             method == IF req.method.some THEN req.method.val ELSE ""
             params == IF req.params.some THEN req.params.val ELSE NoParams
         IN  respond(method, dispatch_method(w, req.id.val, method, params, env))

\* ---------------------------------------------- specification: Tool Bridge

BridgeInput == MkPath("in", "", "a", Some(<<"p","n","g">>))
MissingInput == MkPath("in", "", "zz", Some(<<"p","n","g">>))

Request(id, method, params) ==
    [kind |-> "json", req |-> [id |-> id, method |-> method, params |-> params]]

Ids == {None, Some(JNull), Some(JNum(1)), Some(JStr("a"))}

\* Requests of the methods without parameters, and of unknown or missing ones.
SimpleRequests ==
    {Request(id, Some(mth), None) : id \in Ids, mth \in {"ping", "shutdown", "nope"}}
    \cup {Request(Some(JNum(1)), mth, None) :
             mth \in {Some("initialize"), Some("health/check"), Some("tools/list"), None}}

ImageArgs ==
    {[NoArgs EXCEPT !.input_path = Some(BridgeInput)],
     [NoArgs EXCEPT !.input_path = Some(BridgeInput), !.format = Some(<<"j","p","e","g">>)],
     [NoArgs EXCEPT !.input_path = Some(BridgeInput),
                    !.output_path = Some(MkPath("out", "", "a", Some(<<"p","n","g">>)))],
     [NoArgs EXCEPT !.input_path = Some(BridgeInput), !.format = Some(<<"b","m","p">>)],
     [NoArgs EXCEPT !.input_path = Some(MissingInput)],
     [NoArgs EXCEPT !.input_path = Some(BridgeInput), !.quality = Some(JInt(FALSE, 0, 90)),
                    !.max_width = Some(JInt(FALSE, 0, 100))],
     \* max_width 2^32, alone
     [NoArgs EXCEPT !.input_path = Some(BridgeInput),
                    !.max_width = Some(JInt(FALSE, 65536, 0))],
     \* max_width 100 and max_height 2^32 + 5, with quality 300
     [NoArgs EXCEPT !.input_path = Some(BridgeInput), !.quality = Some(JInt(FALSE, 0, 300)),
                    !.max_width = Some(JInt(FALSE, 0, 100)),
                    !.max_height = Some(JInt(FALSE, 65536, 5))],
     \* max_height 50, alone
     [NoArgs EXCEPT !.input_path = Some(BridgeInput),
                    !.max_height = Some(JInt(FALSE, 0, 50))]}

DirectoryArgs ==
    {[NoArgs EXCEPT !.input_dir = Some(MkDir("in", ""))],
     [NoArgs EXCEPT !.input_dir = Some(MkDir("in", "")), !.format = Some(<<".">>)],
     [NoArgs EXCEPT !.input_dir = Some(MkDir("nodir", ""))],
     [NoArgs EXCEPT !.input_dir = Some(MkDir("in", "")), !.quality = Some(JInt(FALSE, 0, 60))],
     [NoArgs EXCEPT !.input_dir = Some(MkDir("in", "")),
                    !.quality = Some(JInt(FALSE, 0, 256))]}

CallParams ==
    {NoParams, [name |-> Some("bogus"), arguments |-> None],
     [name |-> Some("compress_image"), arguments |-> None],
     [name |-> Some("compress_directory"), arguments |-> None]}
    \cup {[name |-> Some("compress_image"), arguments |-> Some(a)] : a \in ImageArgs}
    \cup {[name |-> Some("compress_directory"), arguments |-> Some(a)] : a \in DirectoryArgs}

CallRequests ==
    {Request(Some(JNum(2)), Some("tools/call"), Some(ps)) : ps \in CallParams}
    \cup {Request(None, Some("tools/call"), Some(ps)) :
             ps \in {[name |-> Some("bogus"), arguments |-> None],
                     [name |-> Some("compress_image"),
                      arguments |-> Some([NoArgs EXCEPT !.input_path = Some(MissingInput)])]}}

\* The lines stdin can deliver.
Lines ==
    {[kind |-> "read_error"], [kind |-> "blank"], [kind |-> "garbage"]}
    \cup SimpleRequests \cup CallRequests

\* Whether handling the line reaches a pipeline, whose collaborators then answer.
ReachesPipeline(line) ==
    /\ line.kind = "json"
    /\ line.req.id.some /\ line.req.id.val # JNull
    /\ line.req.method = Some("tools/call")
    /\ line.req.params.some /\ line.req.params.val.arguments.some

\* The collaborators' answers tried for one line.
BridgeOracles == [fault : {"none", "read", "encode", "write_partial"}, outSize : {1}]
QuietEnv(w) ==
    [o |-> [fault |-> "none", outSize |-> 1], mkdirOk |-> TRUE,
     order |-> CHOOSE f \in WalkOrders(DOMAIN w.files) : TRUE]
Envs(w, line) ==
    IF ~ReachesPipeline(line) THEN {QuietEnv(w)}
    ELSE IF line.req.params.val.name = Some("compress_directory")
    THEN [o : BridgeOracles, mkdirOk : BOOLEAN, order : WalkOrders(DOMAIN w.files)]
    ELSE {[QuietEnv(w) EXCEPT !.o = o] : o \in BridgeOracles}

InitBridge ==
    /\ \E c \in {SoundContent(BridgeInput), CorruptContent(BridgeInput)} :
          world = [files |-> [p \in {BridgeInput} |-> c],
                   dirs |-> {MkDir("in", "")}, log |-> <<>>]
    /\ bridge = [pc |-> "running", stdin |-> <<>>, stdout |-> <<>>, marks |-> <<>>,
                 stderr |-> <<>>, calls |-> <<>>, cmarks |-> <<>>,
                 nexts |-> <<>>]
    /\ resolver = Idle
    /\ file = Idle
    /\ batch = Idle
    /\ calc = Idle

\* The state after a turn of the loop in which handle_line returned r.
Turn(line, r) ==
    /\ world' = r.w
    /\ bridge' = [pc |-> CASE r.next = "continue" -> "running"
                           [] r.next = "break" -> "returned"
                           [] r.next = "exit" -> "exited",
                  stdin |-> Append(bridge.stdin, line),
                  stdout |-> bridge.stdout \o r.out,
                  marks |-> Append(bridge.marks, Len(bridge.stdout) + Len(r.out)),
                  stderr |-> bridge.stderr \o r.errlog,
                  calls |-> bridge.calls \o r.calls,
                  cmarks |-> Append(bridge.cmarks, Len(bridge.calls) + Len(r.calls)),
                  nexts |-> Append(bridge.nexts, r.next)]

\* One turn of the loop of main: the next line of stdin is read and handled.
HandleLine ==
    /\ bridge.pc = "running"
    /\ Len(bridge.stdin) < MaxLines
    /\ \E line \in Lines :
          \E env \in Envs(world, line) :
             Turn(line, handle_line([world EXCEPT !.log = <<>>], line, env))
    /\ UNCHANGED <<resolver, file, batch, calc>>

\* stdin is closed: the loop ends and main returns.
EndOfInput ==
    /\ bridge.pc = "running"
    /\ bridge' = [bridge EXCEPT !.pc = "returned"]
    /\ UNCHANGED <<resolver, world, file, batch, calc>>

NextBridge == HandleLine \/ EndOfInput

SpecBridge == InitBridge /\ [][NextBridge]_vars


\* -------------------------------------- specification: ResizeOptions::new

\* The 16-bit halves and the u32 values the constructor is called with.
DimHalves == {0, 1, 65535}
Dims == {U32(hi, lo) : hi \in DimHalves, lo \in DimHalves}
ResizeModes == {"Fit", "Exact"}

InitResize ==
    /\ calc \in [pc : {"call"}, width : Dims, height : Dims, mode : ResizeModes,
                 res : {None}]
    /\ world = EmptyWorld
    /\ resolver = Idle
    /\ file = Idle
    /\ batch = Idle
    /\ bridge = Idle

\* One call of ResizeOptions::new.
NewResize ==
    /\ calc.pc = "call"
    /\ calc' = [calc EXCEPT
                   !.pc = "done",
                   !.res = Some(ResizeOptions_new(calc.width, calc.height, calc.mode))]
    /\ UNCHANGED <<resolver, world, file, batch, bridge>>

NextResize == NewResize

SpecResize == InitResize /\ [][NextResize]_vars

\* ------------------------------------- specification: savings percentage

\* Largest byte count the savings are computed for.
MaxStatBytes == 10

InitStats ==
    /\ calc \in [pc : {"call"}, original_bytes : 0..MaxStatBytes,
                 compressed_bytes : 0..MaxStatBytes, res : {None}]
    /\ world = EmptyWorld
    /\ resolver = Idle
    /\ file = Idle
    /\ batch = Idle
    /\ bridge = Idle

\* The end of compress_image_file: the stats of a run that read
\* original_bytes and wrote compressed_bytes.
ComputeStats ==
    /\ calc.pc = "call"
    /\ calc' = [calc EXCEPT
                   !.pc = "done",
                   !.res = Some(CompressionStats(calc.original_bytes,
                                                 calc.compressed_bytes))]
    /\ UNCHANGED <<resolver, world, file, batch, bridge>>

NextStats == ComputeStats

SpecStats == InitStats /\ [][NextStats]_vars

\* --------------------------------------------------- claims: the resolver

Has(log, e) == \E i \in 1..Len(log) : log[i] = e
AllIn(s, cs) == \A i \in 1..Len(s) : s[i] \in cs

\* The result the specification assigns to a normalized token.
FormatOfToken(t) ==
    IF t = <<>> THEN Err("EmptyExtension", <<>>)
    ELSE IF t \in {<<"j","p","g">>, <<"j","p","e","g">>} THEN Ok("Jpeg")
    ELSE IF t = <<"p","n","g">> THEN Ok("Png")
    ELSE IF t = <<"w","e","b","p">> THEN Ok("WebP")
    ELSE IF t = <<"a","v","i","f">> THEN Ok("Avif")
    ELSE Err("UnsupportedFormat", t)

\* The ways to read s as blanks, then dots, then a core, then blanks, where
\* the blanks are all the blanks at either end and the core starts with no dot:
\* <<i, j, k>> puts the blanks in 1..i, the dots in i+1..j, the core in j+1..k.
Readings(s, maxDots) ==
    {r \in (0..Len(s)) \X (0..Len(s)) \X (0..Len(s)) :
        /\ r[1] <= r[2] /\ r[2] <= r[3]
        /\ r[2] - r[1] <= maxDots
        /\ AllIn(SubSeq(s, 1, r[1]), WhiteSpace)
        /\ AllIn(SubSeq(s, r[1] + 1, r[2]), {"."})
        /\ AllIn(SubSeq(s, r[3] + 1, Len(s)), WhiteSpace)
        \* the leading blanks are maximal
        /\ r[1] < Len(s) => s[r[1] + 1] \notin WhiteSpace
        \* the trailing blanks are maximal, and do not overlap the leading ones
        /\ r[3] > r[1] => s[r[3]] \notin WhiteSpace
        /\ (r[3] = r[1]) => r[1] = Len(s) \/ r[3] = r[2]
        \* the dots are maximal, up to maxDots of them
        /\ (r[2] - r[1] < maxDots /\ r[2] < r[3]) => s[r[2] + 1] # "."}

\* C8 as stated: the result is that of trimming, stripping ONE leading dot and
\* lower-casing, so that "..png" is unsupported.
C8_SingleDot ==
    resolver.pc # "idle" /\ resolver.res.some =>
        /\ Readings(resolver.input, 1) # {}
        /\ \A r \in Readings(resolver.input, 1) :
              LET core == SubSeq(resolver.input, r[2] + 1, r[3])
              IN  resolver.res.val = FormatOfToken(ToAsciiLowercase(core))

\* C8 amended: the result is that of trimming, stripping EVERY leading dot and
\* lower-casing: the format for jpg/jpeg/png/webp/avif in any casing, the
\* unsupported-format error naming the token for any other non-empty token,
\* the empty-extension error for the empty token.
C8_AllDots ==
    resolver.pc # "idle" /\ resolver.res.some =>
        /\ Readings(resolver.input, Len(resolver.input)) # {}
        /\ \A r \in Readings(resolver.input, Len(resolver.input)) :
              LET core == SubSeq(resolver.input, r[2] + 1, r[3])
              IN  resolver.res.val = FormatOfToken(ToAsciiLowercase(core))

\* An input with two leading dots that resolved to PNG.
C8_Witness ==
    /\ resolver.pc # "idle" /\ resolver.res.some
    /\ Len(resolver.input) >= 2
    /\ resolver.input[1] = "." /\ resolver.input[2] = "."
    /\ resolver.res.val = Ok("Png")

\* ------------------------------------------- claims: Single-File Pipeline

FileDone == file.pc = "done"
FCall == file.call.val
FRes == file.res.val
FBefore == file.before.val
FailedAs(kind) == ~FRes.ok /\ FRes.kind = kind

DecodeEvents == {"load_from_memory_with_format", "load_from_memory"}
EncoderEvents == {"mozjpeg", "oxipng", "webp", "ravif"}
Decoded(log) == \E i \in 1..Len(log) : log[i] \in DecodeEvents
EncoderOf(format) ==
    CASE format = "Jpeg" -> "mozjpeg" [] format = "Png" -> "oxipng"
      [] format = "WebP" -> "webp" [] format = "Avif" -> "ravif"

\* The format the output path of the call resolves to.
FFormat ==
    LET ext == PathExtension(FCall.output)
    IN  IF ext.some THEN from_extension(ext.val) ELSE Err("MissingExtension", <<>>)

\* C4: a missing input fails with input-not-found, and (the input being there)
\* an existing output without overwrite fails with output-exists; either way
\* nothing was called (no read, no codec, no create_dir_all) and no file and
\* no directory changed.
C4_PreconditionsFirst ==
    FileDone =>
        /\ ~IsFile(FBefore, FCall.input) =>
              FailedAs("InputNotFound") /\ world = FBefore
        /\ (IsFile(FBefore, FCall.input) /\ Exists(FBefore, FCall.output)
              /\ ~FCall.options.overwrite) =>
              FailedAs("OutputExists") /\ world = FBefore

\* The input is a file, the output exists, overwrite is off: the call failed
\* with output-exists and the output holds what it held.
C4_Witness ==
    /\ FileDone
    /\ FCall.output \in DOMAIN FBefore.files
    /\ ~FCall.options.overwrite
    /\ FailedAs("OutputExists")
    /\ world.files[FCall.output] = OldContent

\* The call got as far as the dispatch: validated, read, format resolved.
FDispatched == FileDone /\ Has(world.log, "read") /\ FCall.o.fault # "read" /\ FFormat.ok

FFastPath ==
    /\ FFormat.val = "Png"
    /\ ~FCall.options.resize.some
    /\ FBefore.files[FCall.input].sniff = "png"

\* C5: decode is skipped, and the input bytes go to the PNG optimizer as they
\* are, iff the target is PNG, no resize was asked and the input sniffs as PNG;
\* otherwise the input is decoded, resized when asked, and the one encoder
\* called is that of the target format.
C5_DispatchRule ==
    FDispatched =>
        /\ ~Decoded(world.log) <=> FFastPath
        /\ FFastPath => /\ Has(world.log, "oxipng")
                        /\ ~Has(world.log, "image_write_to_png")
                        /\ ~Has(world.log, "resize") /\ ~Has(world.log, "resize_exact")
        /\ (~FFastPath /\ FBefore.files[FCall.input].decodable) =>
              /\ Has(world.log, EncoderOf(FFormat.val))
              /\ \A e \in EncoderEvents \ {EncoderOf(FFormat.val)} : ~Has(world.log, e)
              /\ Has(world.log, "image_write_to_png") <=> FFormat.val = "Png"
              /\ FCall.options.resize.some <=>
                    (Has(world.log, "resize") \/ Has(world.log, "resize_exact"))
        /\ (~FFastPath /\ ~FBefore.files[FCall.input].decodable) =>
              FailedAs("Decode") /\ \A e \in EncoderEvents : ~Has(world.log, e)

\* A PNG went to a PNG target without resize and was optimized undecoded.
C5_Witness ==
    /\ FDispatched /\ FFastPath /\ FRes.ok
    /\ Has(world.log, "oxipng") /\ ~Decoded(world.log)

\* The encoder of the call returned bytes.
FEncoded ==
    /\ FDispatched
    /\ \E e \in EncoderEvents : Has(world.log, e)
    /\ FCall.o.fault # "encode" \/ FFormat.val = "WebP"
    /\ FBefore.files[FCall.input].decodable

\* C6 as stated: the write comes only after the encoder returned bytes, and a
\* failed read, format resolution, decode or encode leaves files AND
\* directories as they were.
C6_NoEffectOnFailure ==
    FileDone =>
        /\ Has(world.log, "write") =>
              FEncoded /\ world.log[Len(world.log)] = "write"
        /\ (~FRes.ok /\ (FRes.kind \in {"MissingExtension", "EmptyExtension",
                                         "UnsupportedFormat", "Decode", "Encode"}
                          \/ (FRes.kind = "Io" /\ FCall.o.fault = "read"))) =>
              world.files = FBefore.files /\ world.dirs = FBefore.dirs

\* C6 amended: the write comes only after the encoder returned bytes, and on
\* every failure before the write (precondition, read, format resolution,
\* decode, encode) all files, the output included, are as they were; of the
\* directories only the output's parent and its ancestors may have been
\* created, which validate_input_and_output does before the input is read.
C6_NoFileEffectOnFailure ==
    FileDone =>
        /\ Has(world.log, "write") =>
              FEncoded /\ world.log[Len(world.log)] = "write"
        /\ (~FRes.ok /\ ~Has(world.log, "write")) => world.files = FBefore.files
        /\ FBefore.dirs \subseteq world.dirs
        /\ world.dirs \subseteq FBefore.dirs \cup Ancestors(Parent(FCall.output))

\* The encoder failed in a call allowed to overwrite an existing output: the
\* output holds what it held.
C6_Witness ==
    /\ FileDone /\ FailedAs("Encode")
    /\ FCall.options.overwrite
    /\ FCall.output \in DOMAIN FBefore.files
    /\ world.files[FCall.output] = OldContent

\* C7: an output path without extension, with an empty one or with an
\* unsupported one makes the call fail before the input is read, a directory
\* is created or a codec is called.
C7_ConfigErrorBeforeIo ==
    (FileDone /\ ~FFormat.ok) =>
        /\ ~FRes.ok
        /\ ~Has(world.log, "read")
        /\ world.dirs = FBefore.dirs
        /\ \A e \in DecodeEvents \cup EncoderEvents : ~Has(world.log, e)

\* --------------------------------------------- claims: Batch Orchestrator

\* The batch passed its preconditions: the files were collected.
BatchStarted == batch.pc \in {"loop", "done"} /\ Has(world.log, "collect_input_files")
BatchDone == batch.pc = "done"
BBefore == batch.before.val
BEntries == batch.entries

\* The files whose pipeline run returned an error, or whose relative path
\* could not be computed.
FailedEntries ==
    {k \in 1..Len(BEntries) :
        \/ ~BEntries[k].target.some
        \/ BEntries[k].pipeline.some /\ ~BEntries[k].pipeline.val.ok}

\* C1: once the preconditions passed no file failure aborts the batch: every
\* discovered file is counted exactly once (compressed + skipped + failed is
\* the number of files handled so far, and N at the end), failed is the
\* number of files whose pipeline run failed, and a report is returned.
C1_FailureIsolation ==
    BatchStarted =>
        /\ Len(BEntries) = batch.i - 1
        /\ \A k \in 1..Len(BEntries) : BEntries[k].source = batch.files[k]
        /\ batch.report.compressed + batch.report.skipped + batch.report.failed
              = Len(BEntries)
        /\ batch.report.failed = Cardinality(FailedEntries)
        /\ BatchDone =>
              /\ batch.res.val = Ok(batch.report)
              /\ Len(BEntries) = Len(batch.files)
              /\ Len(batch.files)
                    = Cardinality(DiscoveredFiles(BBefore, batch.args.input_dir,
                                                  batch.args.recursive))

\* Of two files the first was corrupt and failed, the second was compressed.
C1_Witness ==
    /\ BatchStarted /\ BatchDone
    /\ Len(batch.files) = 2
    /\ BEntries[1].outcome = "failed"
    /\ BEntries[1].pipeline.val.kind \in {"Decode", "Encode"}
    /\ BEntries[2].outcome = "compressed"
    /\ batch.report.failed = 1
    /\ batch.report.compressed + batch.report.skipped = 1

\* The destination a discovered file maps to: its path below input_dir put
\* below output_dir, with the normalized target extension.
MappedDestination(source) ==
    MkPath(batch.args.output_dir.root, source.sub, source.stem, Some(batch.to_extension))

\* C2: with overwrite off, a discovered file whose destination existed before
\* the batch is counted as skipped, the pipeline is not run for it, and the
\* destination holds, during and after the batch, what it held before.
C2_SkipLaw ==
    (BatchStarted /\ ~batch.args.options.overwrite) =>
        /\ \A k \in 1..Len(BEntries) :
              MappedDestination(batch.files[k]) \in DOMAIN BBefore.files =>
                 /\ BEntries[k].outcome = "skipped"
                 /\ ~BEntries[k].pipeline.some
                 /\ BEntries[k].target = Some(MappedDestination(batch.files[k]))
        /\ \A k \in 1..Len(batch.files) :
              LET d == MappedDestination(batch.files[k])
              IN  d \in DOMAIN BBefore.files =>
                     d \in DOMAIN world.files /\ world.files[d] = BBefore.files[d]
        /\ batch.report.skipped >=
              Cardinality({k \in 1..Len(BEntries) :
                             MappedDestination(batch.files[k]) \in DOMAIN BBefore.files})

\* A batch of two files, overwrite off: the first file's destination existed
\* and was skipped, the second file was compressed.
C2_Witness ==
    /\ BatchStarted /\ BatchDone /\ ~batch.args.options.overwrite
    /\ Len(batch.files) = 2
    /\ MappedDestination(batch.files[1]) \in DOMAIN BBefore.files
    /\ BEntries[1].outcome = "skipped"
    /\ BEntries[2].outcome = "compressed"
    /\ world.files[MappedDestination(batch.files[1])] = OldContent

\* C3: a target format the Format Resolver rejects makes compress_directory
\* return an error before any file is read, the pipeline is run or a
\* destination is written.
C3_InvalidFormatAborts ==
    (batch.pc # "idle" /\ ~from_extension(batch.args.to_extension).ok) =>
        /\ BatchDone => ~batch.res.val.ok
        /\ ~Has(world.log, "read")
        /\ BEntries = <<>>
        /\ BatchDone => world.files = BBefore.files

\* ------------------------------------------------------- claims: Tool Bridge

BridgeRunning == bridge.pc # "idle"

\* The response lines written during the k-th turn of the loop, that is
\* after line k was read and before line k + 1 is read.
ResponsesOf(k) ==
    SubSeq(bridge.stdout, (IF k = 1 THEN 0 ELSE bridge.marks[k - 1]) + 1, bridge.marks[k])

\* A response to the request with this id: the id is the request's, and it
\* has exactly one of result and error{code, message}.
IsResponseTo(resp, id) ==
    /\ resp.id = id
    /\ ("result" \in DOMAIN resp) # ("error" \in DOMAIN resp)
    /\ "error" \in DOMAIN resp => DOMAIN resp.error = {"code", "message"}

Answerable(line) == line.req.id.some /\ line.req.id.val # JNull

CallOf(k) ==
    bridge.calls[Cardinality({j \in 1..k : ReachesPipeline(bridge.stdin[j])})]

\* Handling line k failed: the line is not JSON, or it is a request to be
\* answered that names an unknown method or tool, lacks a required argument,
\* or whose pipeline call returned an error.
LineFailed(k) ==
    LET line == bridge.stdin[k]
    IN  \/ line.kind = "garbage"
        \/ /\ line.kind = "json" /\ Answerable(line)
           /\ \/ line.req.method \notin
                    {Some(mth) : mth \in {"initialize", "ping", "shutdown",
                                          "health/check", "tools/list", "tools/call"}}
              \/ /\ line.req.method = Some("tools/call")
                 /\ \/ ~line.req.params.some
                    \/ /\ line.req.params.some
                       /\ \/ line.req.params.val.name \notin
                                {Some("compress_image"), Some("compress_directory")}
                          \/ ~line.req.params.val.arguments.some
                          \/ /\ ReachesPipeline(line)
                             /\ ~CallOf(k).res.ok

\* C10: every failure while a line is handled (unparseable JSON, unknown
\* method or tool, missing argument, pipeline failure) is answered with one
\* structured error response on stdout, and the loop goes on to the next line.
C10_EveryFailureAnswered ==
    BridgeRunning =>
        \A k \in 1..Len(bridge.stdin) :
           LineFailed(k) =>
              /\ Len(ResponsesOf(k)) = 1
              /\ "error" \in DOMAIN ResponsesOf(k)[1]
              /\ DOMAIN ResponsesOf(k)[1].error = {"code", "message"}
              /\ bridge.nexts[k] = "continue"

\* The empty result of ping and shutdown.
IsEmptyResult(resp) == "result" \in DOMAIN resp /\ resp.result = [content |-> "{}"]

\* C11: every request whose method is shutdown ends the process: its turn
\* ends in exit (with the empty result written first when the request has an
\* id) and no line after it is handled; ping gets the same empty result and
\* the loop goes on.
C11_ShutdownTerminates ==
    BridgeRunning =>
        \A k \in 1..Len(bridge.stdin) :
           LET line == bridge.stdin[k]
           IN  /\ (line.kind = "json" /\ line.req.method = Some("shutdown")) =>
                     /\ bridge.nexts[k] = "exit"
                     /\ k = Len(bridge.stdin)
                     /\ line.req.id.some =>
                           Len(ResponsesOf(k)) = 1 /\ IsEmptyResult(ResponsesOf(k)[1])
               /\ (line.kind = "json" /\ line.req.method = Some("ping")) =>
                     /\ bridge.nexts[k] = "continue"
                     /\ Answerable(line) =>
                           Len(ResponsesOf(k)) = 1 /\ IsEmptyResult(ResponsesOf(k)[1])

\* The pipeline calls made during the k-th turn of the loop.
CallsOf(k) ==
    SubSeq(bridge.calls, (IF k = 1 THEN 0 ELSE bridge.cmarks[k - 1]) + 1, bridge.cmarks[k])

KnownMethods == {"initialize", "ping", "shutdown", "health/check", "tools/list", "tools/call"}

\* The tool and the arguments a tools/call request names.
ToolOf(line) == IF line.req.params.some THEN line.req.params.val.name ELSE None
ArgsOf(line) ==
    IF line.req.params.some /\ line.req.params.val.arguments.some
    THEN line.req.params.val.arguments.val ELSE NoArgs

\* The error code the request of turn k is to be answered with, 0 for a result.
ExpectedCode(k) ==
    LET line == bridge.stdin[k]
    IN  IF line.req.method \notin {Some(mth) : mth \in KnownMethods} THEN -32601
        ELSE IF line.req.method # Some("tools/call") THEN 0
        ELSE IF ToolOf(line) \notin {Some("compress_image"), Some("compress_directory")}
        THEN -32601
        ELSE IF \/ ToolOf(line) = Some("compress_image") /\ ~ArgsOf(line).input_path.some
                \/ ToolOf(line) = Some("compress_directory") /\ ~ArgsOf(line).input_dir.some
        THEN -32602
        ELSE IF Len(CallsOf(k)) = 1 /\ ~CallsOf(k)[1].res.ok THEN -32000
        ELSE 0

\* The response of turn k is the one the error-code rules give, and a request
\* answered with -32602 or -32601 has invoked no pipeline.
AnsweredByCode(k) ==
    /\ Len(ResponsesOf(k)) = 1
    /\ IF ExpectedCode(k) = 0
       THEN "result" \in DOMAIN ResponsesOf(k)[1]
       ELSE /\ "error" \in DOMAIN ResponsesOf(k)[1]
            /\ ResponsesOf(k)[1].error.code = ExpectedCode(k)
    /\ ExpectedCode(k) \in {-32601, -32602} => CallsOf(k) = <<>>
    /\ Len(CallsOf(k)) <= 1

\* C12 as stated: every request with an id member is answered by the
\* error-code rules: -32601 for an unknown method or tool, -32602 (and no
\* pipeline call) for a missing input_path or input_dir, -32000 for a failure
\* of the pipeline, and a result in every other case.
C12_ErrorCodes ==
    BridgeRunning =>
        \A k \in 1..Len(bridge.stdin) :
           (bridge.stdin[k].kind = "json" /\ bridge.stdin[k].req.id.some) =>
              AnsweredByCode(k)

\* C12, amended: every request whose id is present and not null is answered by
\* the error-code rules: -32601 for an unknown method or tool, -32602 (and no
\* pipeline call) for a missing input_path or input_dir, -32000 for a failure
\* of the pipeline, and a result in every other case; every other line is
\* answered with nothing and invokes no pipeline.
C12_ErrorCodesNonNullId ==
    BridgeRunning =>
        \A k \in 1..Len(bridge.stdin) :
           IF bridge.stdin[k].kind = "json" /\ Answerable(bridge.stdin[k])
           THEN AnsweredByCode(k)
           ELSE ResponsesOf(k) = <<>> /\ CallsOf(k) = <<>>

\* Two tools/call requests were handled: compress_image without input_path,
\* answered -32602 with no pipeline call, then a call whose pipeline failed,
\* answered -32000.
C12_Witness ==
    /\ BridgeRunning /\ Len(bridge.stdin) = 2
    /\ bridge.stdin[1].kind = "json" /\ bridge.stdin[2].kind = "json"
    /\ ToolOf(bridge.stdin[1]) = Some("compress_image")
    /\ ~ArgsOf(bridge.stdin[1]).input_path.some
    /\ Len(ResponsesOf(1)) = 1 /\ "error" \in DOMAIN ResponsesOf(1)[1]
    /\ ResponsesOf(1)[1].error.code = -32602 /\ CallsOf(1) = <<>>
    /\ Len(CallsOf(2)) = 1 /\ ~CallsOf(2)[1].res.ok
    /\ Len(ResponsesOf(2)) = 1 /\ "error" \in DOMAIN ResponsesOf(2)[1]
    /\ ResponsesOf(2)[1].error.code = -32000

\* ----------------------------------------------- claims: ResizeOptions::new

ResizeDone == calc.pc = "done" /\ "width" \in DOMAIN calc

\* C13: ResizeOptions::new(width, height, mode) fails if and only if width is 0
\* or height is 0; otherwise it succeeds with exactly the given width, height
\* and mode, so both dimensions of a constructed value are greater than zero.
C13_ResizeNewIff ==
    ResizeDone =>
        LET r == calc.res.val
        IN  /\ ~r.ok <=> (calc.width = U32(0, 0) \/ calc.height = U32(0, 0))
            /\ r.ok => /\ r.val = [width |-> calc.width, height |-> calc.height,
                                   mode |-> calc.mode]
                       /\ r.val.width # U32(0, 0) /\ r.val.height # U32(0, 0)

\* The constructor was called with width 65536 (low half zero), height 1 and
\* mode Exact, and returned these values.
C13_Witness ==
    /\ ResizeDone
    /\ calc.width = U32(1, 0) /\ calc.height = U32(0, 1) /\ calc.mode = "Exact"
    /\ calc.res.val.ok
    /\ calc.res.val.val = [width |-> U32(1, 0), height |-> U32(0, 1), mode |-> "Exact"]

\* ----------------------------------------------- claims: savings percentage

StatsDone == calc.pc = "done" /\ "original_bytes" \in DOMAIN calc
Savings == calc.res.val.savings_percent

\* The savings are (1 - compressed/original) * 100 for original > 0 and are
\* at most 100; 0 for original = 0; 0 for compressed = original; 100 for
\* compressed = 0 and original > 0.
SavingsLaws ==
    /\ Savings.den > 0
    /\ calc.original_bytes > 0 =>
          Savings.num * calc.original_bytes =
             100 * (calc.original_bytes - calc.compressed_bytes) * Savings.den
    /\ Savings.num <= 100 * Savings.den
    /\ calc.original_bytes = 0 => Savings.num = 0
    /\ calc.compressed_bytes = calc.original_bytes => Savings.num = 0
    /\ (calc.compressed_bytes = 0 /\ calc.original_bytes > 0) =>
          Savings.num = 100 * Savings.den

AsJInt(n) == JInt(FALSE, n.hi, n.lo)

\* The bound a Fit resize is to carry for a max_width / max_height argument:
\* the supplied number, and u32::MAX (unbounded) when the argument is absent.
SuppliedBound(a) == IF a.some THEN a.val ELSE AsJInt(U32Max)

\* Turn k handled a compress_image call that was answered and had its
\* input_path.
ImageCallTurn(k) ==
    /\ bridge.stdin[k].kind = "json" /\ Answerable(bridge.stdin[k])
    /\ bridge.stdin[k].req.method = Some("tools/call")
    /\ ToolOf(bridge.stdin[k]) = Some("compress_image")
    /\ ArgsOf(bridge.stdin[k]).input_path.some

\* C15: a compress_image call with max_width or max_height supplied invokes
\* the pipeline with a Fit resize whose bounds are the supplied values, an
\* absent bound being u32::MAX; it never runs the pipeline without a resize.
C15_BoundsBecomeFitResize ==
    BridgeRunning =>
        \A k \in 1..Len(bridge.stdin) :
           LET args == ArgsOf(bridge.stdin[k])
           IN  (ImageCallTurn(k) /\ (args.max_width.some \/ args.max_height.some)) =>
                  /\ Len(CallsOf(k)) = 1
                  /\ CallsOf(k)[1].options.resize.some
                  /\ CallsOf(k)[1].options.resize.val.mode = "Fit"
                  /\ AsJInt(CallsOf(k)[1].options.resize.val.width) =
                        SuppliedBound(args.max_width)
                  /\ AsJInt(CallsOf(k)[1].options.resize.val.height) =
                        SuppliedBound(args.max_height)

\* Turn k handled a compress_image or compress_directory call that reached
\* its pipeline.
PipelineTurn(k) ==
    /\ bridge.stdin[k].kind = "json" /\ Answerable(bridge.stdin[k])
    /\ bridge.stdin[k].req.method = Some("tools/call")
    /\ Len(CallsOf(k)) = 1

\* C16: the options of every pipeline call of the Tool Bridge have quality
\* absent when the request has no quality argument, and otherwise the number
\* of the request, which is within 1..100.
C16_QualityPassedUnchanged ==
    BridgeRunning =>
        \A k \in 1..Len(bridge.stdin) :
           PipelineTurn(k) =>
              LET quality == CallsOf(k)[1].options.quality
                  arg == ArgsOf(bridge.stdin[k]).quality
              IN  IF ~arg.some THEN ~quality.some
                  ELSE /\ quality.some
                       /\ quality.val \in 1..100
                       /\ JInt(FALSE, 0, quality.val) = arg.val

\* ---------------------------------------------- claims: BatchReport tally

\* The sum of a byte count of the stats over the entries counted as compressed.
RECURSIVE CompressedSum(_, _)
CompressedSum(entries, field) ==
    IF entries = <<>> THEN 0
    ELSE CompressedSum(SubSeq(entries, 1, Len(entries) - 1), field)
         + (IF entries[Len(entries)].outcome = "compressed"
            THEN entries[Len(entries)].pipeline.val.val[field] ELSE 0)

\* The totals of the report are the sums over the files counted as compressed.
TotalsAreSums ==
    /\ batch.report.total_original_bytes = CompressedSum(BEntries, "original_bytes")
    /\ batch.report.total_compressed_bytes = CompressedSum(BEntries, "compressed_bytes")

\* The counters of the report as a tuple.
Counters(report) == <<report.compressed, report.skipped, report.failed>>

\* One file was processed in this step.
FileProcessed == batch.pc = "loop" /\ batch'.i = batch.i + 1

\* C17: each file processed makes exactly one of compressed, skipped, failed
\* grow by 1 and no counter or total decrease; the totals are the sums of the
\* original and compressed bytes of the files counted as compressed, to which
\* skipped and failed files add nothing.
C17_AppendOnlyTally ==
    [][FileProcessed =>
          /\ Counters(batch'.report) \in
                {<<batch.report.compressed + 1, batch.report.skipped, batch.report.failed>>,
                 <<batch.report.compressed, batch.report.skipped + 1, batch.report.failed>>,
                 <<batch.report.compressed, batch.report.skipped, batch.report.failed + 1>>}
          /\ batch'.report.total_original_bytes >= batch.report.total_original_bytes
          /\ batch'.report.total_compressed_bytes >= batch.report.total_compressed_bytes
          /\ (batch'.report.compressed = batch.report.compressed) =>
                /\ batch'.report.total_original_bytes = batch.report.total_original_bytes
                /\ batch'.report.total_compressed_bytes = batch.report.total_compressed_bytes
          /\ TotalsAreSums']_vars

\* A batch of two files ended: the first was compressed from MaxBytes bytes to
\* one byte, the second failed, and the totals are those of the first alone.
C17_Witness ==
    /\ BatchStarted /\ BatchDone /\ Len(BEntries) = 2
    /\ BEntries[1].outcome = "compressed" /\ BEntries[2].outcome = "failed"
    /\ BEntries[2].pipeline.some
    /\ batch.report.compressed = 1 /\ batch.report.failed = 1
    /\ batch.report.total_original_bytes = MaxBytes
    /\ batch.report.total_compressed_bytes = 1

\* ---------------------------------------- claims: colliding destinations

\* The positions, among the files handled so far, of two files that map to
\* the same destination, which did not exist before the batch.
Collisions ==
    {pair \in (1..Len(BEntries)) \X (1..Len(BEntries)) :
        /\ pair[1] < pair[2]
        /\ MappedDestination(batch.files[pair[1]]) = MappedDestination(batch.files[pair[2]])
        /\ MappedDestination(batch.files[pair[1]]) \notin DOMAIN BBefore.files}

\* The destination holds the output made from this source.
HoldsOutputOf(dest, source) ==
    dest \in DOMAIN world.files /\ world.files[dest].origin = Some(source)

=============================================================================
